---- MODULE Spec2Model ----
(***************************************************************************)
(* Model of src/vs/editor/common/services/treeSitter/                      *)
(* treeSitterParserService.ts: the grammar catalog (TreeSitterLanguages    *)
(* over AsyncCache / PromiseWithSyncAccess), the document session          *)
(* coordinator (TextModelTreeSitter) and the parse session                 *)
(* (TreeSitterParseResult).                                                *)
(*                                                                         *)
(* Scheduling is the JavaScript event loop.  A macrotask (a document       *)
(* event, a setTimeout0 callback, the completion of a grammar fetch, an    *)
(* outside call) runs only when the microtask queue `micro` is empty; the  *)
(* continuations it leaves behind (the code after an `await`, a `.then`    *)
(* callback) are jobs appended to `micro` and run first-in first-out       *)
(* before the next macrotask.                                              *)
(***************************************************************************)
EXTENDS Integers, Sequences, FiniteSets, TLC

\* ------------------------------------------------------------------ bounds
\* edits applied to the document, and edits in one content-change batch
MaxEdits == 2
MaxBatch == 2
\* parse() calls of the coordinator (language changes, the first bind included)
MaxParses == 2
\* calls of the catalog from outside the coordinator
MaxRequests == 2

Langs == {"typescript", "css"}

VARIABLES
    registered,     \* TreeSitterLanguages._registeredLanguages (its key set)
    cache,          \* TreeSitterLanguages._languages: AsyncCache entries
    fetchCount,     \* history: calls of _fetchLanguage per identifier
    broadcasts,     \* history: fires of _onDidAddLanguage per identifier
    unhandled,      \* history: rejected _addLanguage promises nobody awaits
    asyncWaiting,   \* getLanguage calls whose promise is still pending
    asyncOutcomes,  \* history: how getLanguage promises settled
    lastSync,       \* history: last value getOrInitLanguage returned
    requests,       \* number of outside catalog calls made
    attempts,       \* TextModelTreeSitter.parse() activations; settles counts
                    \* the resolve/reject calls on the promise of _getLanguage
    store,          \* attempts whose disposables sit in _languageSessionDisposables
    parseResult,    \* TextModelTreeSitter._parseResult (session id, 0 = undefined)
    coordDisposed,  \* TextModelTreeSitter disposed (its emitter too)
    modelDisposed,  \* ITextModel.isDisposed()
    docEdits,       \* number of edits applied to the document text so far
    sessions,       \* every TreeSitterParseResult ever constructed
    heap,           \* every Parser.Tree handle ever obtained
    micro           \* the microtask queue

catalogVars == <<registered, cache, fetchCount, broadcasts, unhandled,
                 asyncWaiting, asyncOutcomes, lastSync, requests>>
coordVars == <<attempts, store, parseResult, coordDisposed, modelDisposed>>
sessionVars == <<docEdits, sessions, heap>>

\* A microtask: k is the continuation, s/t a session (or attempt) and task
\* index, l a language identifier.
Job(k, s, t, l) == [k |-> k, s |-> s, t |-> t, l |-> l]

\* ------------------------------------------------- Async Memo Cache
\* An entry: promise is the state of the cached Promise ("absent" when the
\* key is unknown), result is PromiseWithSyncAccess._result, starter the
\* accessor whose _addLanguage call created the entry.
NoEntry == [promise |-> "absent", result |-> "unset", starter |-> "none"]

\* AsyncCache.isCached
isCached(l) == cache[l].result # "unset"

getSyncIfCached_raw(l) == cache[l].result

\* AsyncCache.getSyncIfCached: result?.data; a failed future has no data
getSyncIfCached(l) == IF cache[l].result = "grammar" THEN "grammar" ELSE "undefined"

\* PromiseWithSyncAccess constructor: the value _result takes once the
\* promise has settled
ResultOf(promise) ==
    CASE promise = "grammar" -> "grammar"
      [] promise = "undefined" -> "undefined"
      [] promise = "rejected" -> "error"
      [] OTHER -> "unset"

\* ------------------------------------------------- Grammar Catalog
NeedsFetch_noDedup(l) == cache[l].promise \in {"absent", "pending"}

\* _addLanguage: `if (!languagePromise)`
NeedsFetch(l) == cache[l].promise = "absent"

\* _fetchLanguage up to its first await: an unmapped identifier resolves to
\* undefined at once, a mapped one waits for the file service
FetchLanguage(l) == IF l \in registered THEN "pending" ELSE "undefined"

StartsFetch_retry(l) ==
    \/ ~isCached(l) /\ NeedsFetch(l)
    \/ cache[l].result = "undefined" /\ l \in registered

\* getOrInitLanguage / getLanguage: does this call reach _addLanguage's set()
StartsFetch(l) == ~isCached(l) /\ NeedsFetch(l)

\* the cache after a call of either accessor
CacheAfterCall(l, who) ==
    IF StartsFetch(l)
    THEN [cache EXCEPT ![l] = [promise |-> FetchLanguage(l), result |-> "unset", starter |-> who]]
    ELSE cache

\* the microtasks a call leaves behind: when _fetchLanguage returned without
\* awaiting, the reactions of the already resolved promise are queued in
\* registration order (PromiseWithSyncAccess first, _addLanguage second)
JobsAfterCall(l) ==
    IF StartsFetch(l) /\ FetchLanguage(l) = "undefined"
    THEN <<Job("setResult", 0, 0, l), Job("addLanguage", 0, 0, l)>>
    ELSE <<>>

FetchCountAfterCall(l) ==
    IF StartsFetch(l) THEN [fetchCount EXCEPT ![l] = @ + 1] ELSE fetchCount

\* getOrInitLanguage: the value returned
GetOrInitLanguage(l) == IF isCached(l) THEN getSyncIfCached(l) ELSE "undefined"


\* ------------------------------------------------- Syntax trees
\* A tree handle.  base: the edits (1..base) that were in the document text
\* when the parser produced it; start: the edit count when the reparse that
\* produced it cleared _newEdits; patches: the edits folded in by Tree.edit;
\* deletes: calls of Tree.delete; committed: it was stored in _tree.
ParsedTree(start) ==
    [kind |-> "parse", base |-> docEdits, start |-> start, patches |-> <<>>,
     deletes |-> 0, committed |-> FALSE, commitAt |-> 0]

\* Tree.copy: a new handle on the same structure
CopyOf(tr) == [tr EXCEPT !.kind = "copy", !.deletes = 0, !.committed = FALSE]

EditTree_reversed(tr, first, n) ==
    [tr EXCEPT !.patches = @ \o [i \in 1..n |-> first + n - i]]

\* Tree.edit for the n edits first..first+n-1 of one batch, in list order
EditTree(tr, first, n) == [tr EXCEPT !.patches = @ \o [i \in 1..n |-> first + i - 1]]

\* ------------------------------------------------- Parse Session
Settled == {"resolved", "done", "skipped"}
Active == {"yield", "finishing"}

NewTask_resolved(changed, old) ==
    [pc |-> "queued", tree |-> 0, ret |-> 0, changed |-> changed, old |-> old,
     start |-> 0, end |-> 0, resolved |-> TRUE, notified |-> 0]

\* onDidChangeContent: the promise it returns and the queue callback it
\* registers; nothing is resolved yet
NewTask(changed, old) ==
    [pc |-> "queued", tree |-> 0, ret |-> 0, changed |-> changed, old |-> old,
     start |-> 0, end |-> 0, resolved |-> FALSE, notified |-> 0]

\* new TreeSitterParseResult(...): _tree undefined, _newEdits true
NewSession(l, a) ==
    [lang |-> l, attempt |-> a, latest |-> Len(attempts), disposed |-> FALSE,
     subscribed |-> TRUE, tree |-> 0, newEdits |-> TRUE, parserDeletes |-> 0,
     lastEdit |-> docEdits, tasks |-> <<>>, faulted |-> <<>>, sinceYield |-> 0]

QueueReady_unchained(tasks) == TRUE

\* _onDidChangeContentQueue.then(...): the callback runs once the promise of
\* every earlier callback has settled
QueueReady(tasks) == \A i \in DOMAIN tasks : tasks[i].pc \in Settled

ApplyEditsFlag_unset(flag, n) == flag

\* _applyEdits: _newEdits = true once per change
ApplyEditsFlag(flag, n) == IF n > 0 THEN TRUE ELSE flag

\* findChangedNodes + calculateRangeChange on the edited tree against its
\* copy, abstractly: the edits whose dirty markers the live tree carries
ChangedNodes(tr) == [whole |-> FALSE, dirty |-> tr.patches]

\* changedNodes stays undefined: the caller publishes the whole document
WholeDocument == [whole |-> TRUE, dirty |-> <<>>]

\* TreeSitterParseResult.onDidChangeContent for the batch of n edits whose
\* last edit is number `last`, on session s of acc = [sessions, heap, micro]
OnDidChangeContent(acc, s, last, n) ==
    LET sess == acc.sessions[s]
        hasTree == sess.tree # 0
        heap1 == IF hasTree THEN Append(acc.heap, CopyOf(acc.heap[sess.tree])) ELSE acc.heap
        old == IF hasTree THEN Len(heap1) ELSE 0
        heap2 == IF hasTree
                 THEN [heap1 EXCEPT ![sess.tree] = EditTree(@, last - n + 1, n)]
                 ELSE heap1
        changed == IF hasTree THEN ChangedNodes(heap2[sess.tree]) ELSE WholeDocument
        t == Len(sess.tasks) + 1
        sess2 == [sess EXCEPT !.newEdits = ApplyEditsFlag(@, n),
                              !.lastEdit = last,
                              !.tasks = Append(@, NewTask(changed, old))]
    IN  [sessions |-> [acc.sessions EXCEPT ![s] = sess2],
         heap |-> heap2,
         micro |-> IF QueueReady(sess.tasks)
                   THEN Append(acc.micro, Job("start", s, t, ""))
                   ELSE acc.micro]

\* the document's content-change emitter calls its listeners in order
RECURSIVE DeliverAll(_, _, _, _)
DeliverAll(acc, s, last, n) ==
    IF s > Len(acc.sessions) THEN acc
    ELSE DeliverAll(IF acc.sessions[s].subscribed
                    THEN OnDidChangeContent(acc, s, last, n) ELSE acc,
                    s + 1, last, n)

FaultQueue_broken(tasks) == Append(tasks, [NewTask(WholeDocument, 0) EXCEPT !.pc = "broken"])

\* onDidChangeContent when findChangedNodes throws: the throw comes before
\* anything is chained on _onDidChangeContentQueue
FaultQueue(tasks) == tasks

\* TreeSitterParseResult.onDidChangeContent when the two cursors disagree in
\* findChangedNodes (`Trees are out of sync`): the tree was copied and
\* edited and _newEdits set, nothing is enqueued, and the promise of the
\* call rejects; `faulted` keeps the last edit of each such call
OnDidChangeContentFault(acc, s, last, n) ==
    LET sess == acc.sessions[s]
        heap1 == Append(acc.heap, CopyOf(acc.heap[sess.tree]))
        heap2 == [heap1 EXCEPT ![sess.tree] = EditTree(@, last - n + 1, n)]
        sess2 == [sess EXCEPT !.newEdits = ApplyEditsFlag(@, n),
                              !.lastEdit = last,
                              !.faulted = Append(@, last),
                              !.tasks = FaultQueue(@)]
    IN  [sessions |-> [acc.sessions EXCEPT ![s] = sess2],
         heap |-> heap2,
         micro |-> acc.micro]

\* the content-change emitter calls its listeners in order; the diff of a
\* session that has a tree faults, a session without a tree does not diff
RECURSIVE DeliverAllFault(_, _, _, _)
DeliverAllFault(acc, s, last, n) ==
    IF s > Len(acc.sessions) THEN acc
    ELSE DeliverAllFault(IF ~acc.sessions[s].subscribed THEN acc
                         ELSE IF acc.sessions[s].tree # 0
                         THEN OnDidChangeContentFault(acc, s, last, n)
                         ELSE OnDidChangeContent(acc, s, last, n),
                         s + 1, last, n)

\* TreeSitterParseResult.dispose
DisposeSession(sess) ==
    [sess EXCEPT !.disposed = TRUE, !.subscribed = FALSE, !.parserDeletes = @ + 1]

\* Tree.delete
DeleteTree(tr) == [tr EXCEPT !.deletes = @ + 1]

CommitGuard_never(sess) == FALSE

CommitGuard_always(sess) == TRUE

\* _parseAndUpdateTree: `if (!this._newEdits)`
CommitGuard(sess) == ~sess.newEdits

ClearFlag_keep(flag) == flag

\* _parseAndYield: `this._newEdits = false`
ClearFlag(flag) == FALSE

\* parser.parse(...) of one time slice: a new tree, or none on timeout
Slice(produced, start) == IF produced THEN <<ParsedTree(start)>> ELSE <<>>


\* ------------------------------------------------- tree structure and diff
\* The structural view of one session: the document text, the nodes of the
\* live tree and of the baseline copy, and what the last call of
\* onDidChangeContent handed to Tree.edit and returned.
VARIABLES
    docLines,       \* ITextModel: the length of each line, line breaks excluded
    tree,           \* TreeSitterParseResult._tree as a node arena (<<>> = none)
    oldTree,        \* onDidChangeContent: `const oldTree = this.tree?.copy()`
    change,         \* the IModelContentChange of the last call
    treeEdit,       \* the edit object the last call passed to Tree.edit
    changedNodes,   \* what findChangedNodes returned to the last call
    ranges,         \* what calculateRangeChange returned to the last call
    diffNote,       \* history: the leaf the change hit, the text before it
    diffEdits,      \* number of changes applied so far
    pending,        \* results of onDidChangeContent the coordinator still awaits
    published       \* what _onDidChangeParseResult fired last

diffVars == <<docLines, tree, oldTree, change, treeEdit, changedNodes, ranges,
              diffNote, diffEdits, pending, published>>

\* changes applied to one structurally tracked document
MaxDiffEdits == 2

\* results of onDidChangeContent the coordinator awaits at one time
MaxPending == 1

\* Parser.Point
Point(row, column) == [row |-> row, column |-> column]

\* Parser.SyntaxNode: parent and children are arena indices, 0 = none
Node(parent, children, startIndex, endIndex, startPosition, endPosition) ==
    [parent |-> parent, children |-> children,
     startIndex |-> startIndex, endIndex |-> endIndex,
     startPosition |-> startPosition, endPosition |-> endPosition,
     hasChanges |-> FALSE]

\* Tree.rootNode
RootId == 1

\* the text "a\nb\n  cc d" and two trees a grammar may give it, and the empty
\* document, whose tree is a root without children
TextABCD == <<1, 1, 6>>
TextEmpty == <<0>>

NestedTree ==
    << Node(0, <<2, 5>>, 0, 10, Point(0, 0), Point(2, 6)),
       Node(1, <<3, 4>>, 0, 3, Point(0, 0), Point(1, 1)),
       Node(2, <<>>, 0, 1, Point(0, 0), Point(0, 1)),
       Node(2, <<>>, 2, 3, Point(1, 0), Point(1, 1)),
       Node(1, <<6, 7>>, 6, 10, Point(2, 2), Point(2, 6)),
       Node(5, <<>>, 6, 8, Point(2, 2), Point(2, 4)),
       Node(5, <<>>, 9, 10, Point(2, 5), Point(2, 6)) >>

FlatTree ==
    << Node(0, <<2, 3, 4, 5>>, 0, 10, Point(0, 0), Point(2, 6)),
       Node(1, <<>>, 0, 1, Point(0, 0), Point(0, 1)),
       Node(1, <<>>, 2, 3, Point(1, 0), Point(1, 1)),
       Node(1, <<>>, 6, 8, Point(2, 2), Point(2, 4)),
       Node(1, <<>>, 9, 10, Point(2, 5), Point(2, 6)) >>

RootOnlyTree == << Node(0, <<>>, 0, 0, Point(0, 0), Point(0, 0)) >>

ParsedDocuments ==
    { [text |-> TextABCD, tree |-> NestedTree],
      [text |-> TextABCD, tree |-> FlatTree],
      [text |-> TextEmpty, tree |-> RootOnlyTree] }

\* ITextModel: the offset at which line i (1-based) starts
RECURSIVE LineStart(_, _)
LineStart(text, i) == IF i <= 1 THEN 0 ELSE LineStart(text, i - 1) + text[i - 1] + 1

\* ITextModel.getValueLength
ValueLength(text) == LineStart(text, Len(text)) + text[Len(text)]

\* ITextModel.getPositionAt: 1-based line number and column of an offset
PositionAt(text, offset) ==
    LET i == CHOOSE j \in DOMAIN text :
                 LineStart(text, j) <= offset /\ offset <= LineStart(text, j) + text[j]
    IN  [lineNumber |-> i, column |-> offset - LineStart(text, i) + 1]

\* the IModelContentChange for replacing `del` characters at `offset` by
\* `ins` characters, all on one line
ContentChangeOf(text, offset, del, ins) ==
    LET from == PositionAt(text, offset)
        to == PositionAt(text, offset + del)
    IN  [range |-> [startLineNumber |-> from.lineNumber, startColumn |-> from.column,
                    endLineNumber |-> to.lineNumber, endColumn |-> to.column],
         rangeOffset |-> offset, rangeLength |-> del, textLength |-> ins]

\* the document text after the change
TextAfter(text, c) ==
    [text EXCEPT ![c.range.startLineNumber] = @ - c.rangeLength + c.textLength]

\* _applyEdits: host line numbers and columns to tree rows and columns
ToTree(n) == n - 1

\* _applyEdits: the edit object built for one change; newEndPosition is read
\* from the model, which already has the change applied
EditOf(textNow, c) ==
    LET newEndOffset == c.rangeOffset + c.textLength
        newEndPosition == PositionAt(textNow, newEndOffset)
    IN  [startIndex |-> c.rangeOffset,
         oldEndIndex |-> c.rangeOffset + c.rangeLength,
         newEndIndex |-> c.rangeOffset + c.textLength,
         startPosition |-> Point(ToTree(c.range.startLineNumber), ToTree(c.range.startColumn)),
         oldEndPosition |-> Point(ToTree(c.range.endLineNumber), ToTree(c.range.endColumn)),
         newEndPosition |-> Point(ToTree(newEndPosition.lineNumber), ToTree(newEndPosition.column))]

\* Tree.edit, per node: does the node's text contain the edited range
Touches(nd, e) == nd.startIndex <= e.startIndex /\ e.oldEndIndex <= nd.endIndex

\* Tree.edit moves a point that lies at or after the old end of the edit, on
\* the row where the edit ended
MovePoint(p, e) ==
    IF p.row = e.oldEndPosition.row /\ p.column >= e.oldEndPosition.column
    THEN Point(e.newEndPosition.row,
               p.column + e.newEndPosition.column - e.oldEndPosition.column)
    ELSE p

\* Tree.edit, per node: a node containing the edit is marked and its end
\* moves; a node after the edit moves as a whole; a node before it is left
\* alone.  `marked` tells that the library marks the node although its text
\* is untouched (a token whose lexer lookahead reached into the edit).
EditNode(nd, e, marked) ==
    LET delta == e.newEndIndex - e.oldEndIndex IN
    IF Touches(nd, e)
    THEN [nd EXCEPT !.endIndex = @ + delta,
                    !.endPosition = MovePoint(@, e),
                    !.hasChanges = TRUE]
    ELSE IF nd.startIndex > e.oldEndIndex
    THEN [nd EXCEPT !.startIndex = @ + delta, !.endIndex = @ + delta,
                    !.startPosition = MovePoint(@, e),
                    !.endPosition = MovePoint(@, e),
                    !.hasChanges = @ \/ marked]
    ELSE [nd EXCEPT !.hasChanges = @ \/ marked]

\* Tree.edit
TreeEditOf(tr, e, alsoMarked) ==
    [c \in DOMAIN tr |-> EditNode(tr[c], e, c \in alsoMarked)]

TreeCopy_shallow(tr) == [c \in DOMAIN tr |-> [tr[c] EXCEPT !.children = <<>>]]

\* Tree.copy: the copy keeps the node positions and markers it was taken with
TreeCopy(tr) == tr

\* SyntaxNode.nextSibling / TreeCursor.gotoNextSibling: the node, 0 = none
NextSibling(tr, c) ==
    LET p == tr[c].parent IN
    IF p = 0 THEN 0
    ELSE LET sibs == tr[p].children
             i == CHOOSE j \in DOMAIN sibs : sibs[j] = c
         IN  IF i < Len(sibs) THEN sibs[i + 1] ELSE 0

\* TreeCursor.gotoFirstChild: the node, 0 = none
FirstChild(tr, c) == IF tr[c].children = <<>> THEN 0 ELSE tr[c].children[1]

\* a traversal step issued on both cursors: each cursor moves if it can;
\* `Trees are out of sync` is thrown when only one of them could
LockStep(toNew, toOld, nc, oc) ==
    IF (toNew # 0) # (toOld # 0)
    THEN [status |-> "fault", new |-> nc, old |-> oc]
    ELSE IF toNew # 0
    THEN [status |-> "moved", new |-> toNew, old |-> toOld]
    ELSE [status |-> "stay", new |-> nc, old |-> oc]

\* findChangedNodes: nextSiblingOrParentSibling
RECURSIVE NextSiblingOrParentSibling(_, _, _, _)
NextSiblingOrParentSibling(newTree, baseTree, nc, oc) ==
    IF NextSibling(newTree, nc) # 0
    THEN LockStep(NextSibling(newTree, nc), NextSibling(baseTree, oc), nc, oc)
    ELSE LET up == IF newTree[nc].parent # 0
                   THEN LockStep(newTree[nc].parent, baseTree[oc].parent, nc, oc)
                   ELSE [status |-> "stay", new |-> nc, old |-> oc]
         IN  IF up.status = "fault" THEN up
             ELSE IF NextSibling(newTree, up.new) # 0 \/ newTree[up.new].parent # 0
             THEN NextSiblingOrParentSibling(newTree, baseTree, up.new, up.old)
             ELSE [status |-> "stay", new |-> up.new, old |-> up.old]

Reportable_withRoot(tr, c) == tr[c].hasChanges

\* findChangedNodes: `currentNode.hasChanges && currentNode.id !== rootNode.id`
Reportable(tr, c) == tr[c].hasChanges /\ c # RootId

CanGoChild_always(tr, c) == tr[c].children # <<>>

\* findChangedNodes: canGoChild, cleared for a node that is recorded
CanGoChild(tr, c) == tr[c].children # <<>> /\ ~Reportable(tr, c)

\* findChangedNodes: the do-while loop from cursor positions nc / oc with the
\* pairs found so far and the nodes the loop body has examined; fault when
\* the cursors disagreed
RECURSIVE FindFrom(_, _, _, _, _, _)
FindFrom(newTree, baseTree, nc, oc, found, visited) ==
    LET found2 == IF Reportable(newTree, nc)
                  THEN Append(found, [new |-> nc, old |-> oc]) ELSE found
        visited2 == Append(visited, nc)
        step == IF CanGoChild(newTree, nc)
                THEN LockStep(FirstChild(newTree, nc), FirstChild(baseTree, oc), nc, oc)
                ELSE NextSiblingOrParentSibling(newTree, baseTree, nc, oc)
    IN  IF step.status = "fault"
        THEN [fault |-> TRUE, pairs |-> found2, visited |-> visited2]
        ELSE IF step.status = "moved"
        THEN FindFrom(newTree, baseTree, step.new, step.old, found2, visited2)
        ELSE [fault |-> FALSE, pairs |-> found2, visited |-> visited2]

\* findChangedNodes(newTree, oldTree): both cursors start at the root
FindChangedNodes(newTree, baseTree) ==
    FindFrom(newTree, baseTree, RootId, RootId, <<>>, <<>>)

ToHost_same(n) == n

\* calculateRangeChange: tree rows and columns to host line numbers and columns
ToHost(n) == n + 1

OldRangeLength_ofNew(newTree, baseTree, pair) ==
    newTree[pair.new].endIndex - newTree[pair.new].startIndex

\* calculateRangeChange: `node.old.endIndex - node.old.startIndex`
OldRangeLength(newTree, baseTree, pair) ==
    baseTree[pair.old].endIndex - baseTree[pair.old].startIndex

\* calculateRangeChange: one RangeChange per pair
CalculateRangeChange(newTree, baseTree, pairs) ==
    [i \in DOMAIN pairs |->
        LET nd == newTree[pairs[i].new] IN
        [newRange |-> [startLineNumber |-> ToHost(nd.startPosition.row),
                       startColumn |-> ToHost(nd.startPosition.column),
                       endLineNumber |-> ToHost(nd.endPosition.row),
                       endColumn |-> ToHost(nd.endPosition.column)],
         oldRangeLength |-> OldRangeLength(newTree, baseTree, pairs[i])]]

\* nothing has been diffed yet
NoChange == [rangeOffset |-> 0, rangeLength |-> 0, textLength |-> 0]
\* called: the last call carried one change and diffed two trees; batch: it
\* carried a list of two changes and diffed two trees
NoDiff == [called |-> FALSE, batch |-> FALSE, leaf |-> 0, before |-> <<>>,
           spill |-> {}, fault |-> FALSE, visited |-> <<>>]

\* the result of TreeSitterParseResult.onDidChangeContent: RangeChange[] or
\* undefined
Result(defined, rs) == [defined |-> defined, ranges |-> rs]

\* ITextModel.getFullModelRange
FullModelRange(text) ==
    [startLineNumber |-> 1, startColumn |-> 1,
     endLineNumber |-> Len(text), endColumn |-> text[Len(text)] + 1]

PublishedRanges_orEmpty(result, text) ==
    IF result.ranges # <<>> THEN result.ranges
    ELSE << [newRange |-> FullModelRange(text), oldRangeLength |-> ValueLength(text)] >>

\* TextModelTreeSitter._onDidChangeContent: `changedNodes ?? [{ newRange:
\* getFullModelRange(), oldRangeLength: getValueLength() }]`, read from the
\* model as it is when the awaited result arrives
PublishedRanges(result, text) ==
    IF result.defined THEN result.ranges
    ELSE << [newRange |-> FullModelRange(text), oldRangeLength |-> ValueLength(text)] >>

\* nothing has been fired yet
NoPublication == [fired |-> FALSE, ranges |-> <<>>]

Leaves(tr) == {c \in DOMAIN tr : tr[c].children = <<>>}

\* the leaf that ends last before node c starts, if any: the token whose
\* lookahead can reach into an edit of c
LeafBefore(tr, c) ==
    {b \in Leaves(tr) :
        /\ tr[b].endIndex < tr[c].startIndex
        /\ \A x \in Leaves(tr) : tr[x].endIndex < tr[c].startIndex
                                    => tr[x].endIndex <= tr[b].endIndex}

\* a node and its ancestors
RECURSIVE PathTo(_, _)
PathTo(tr, c) == IF c = 0 THEN {} ELSE {c} \cup PathTo(tr, tr[c].parent)

\* the model without structural tracking: no document tree is followed
InitNoDiff ==
    /\ docLines = <<>>
    /\ tree = <<>>
    /\ oldTree = <<>>
    /\ change = NoChange
    /\ treeEdit = NoChange
    /\ changedNodes = <<>>
    /\ ranges = <<>>
    /\ diffNote = NoDiff
    /\ diffEdits = 0
    /\ pending = <<>>
    /\ published = NoPublication

\* a session of a document: either its first parse has been committed (the
\* tree of the document text, no node marked) or it has no tree yet
InitDiff ==
    /\ \E d \in ParsedDocuments : docLines = d.text /\ tree \in {d.tree, <<>>}
    /\ oldTree = <<>>
    /\ change = NoChange
    /\ treeEdit = NoChange
    /\ changedNodes = <<>>
    /\ ranges = <<>>
    /\ diffNote = NoDiff
    /\ diffEdits = 0
    /\ pending = <<>>
    /\ published = NoPublication

vars == <<catalogVars, coordVars, sessionVars, micro, diffVars>>

\* ------------------------------------------------- initial state
\* TreeSitterTextModelService's constructor has run _supportedLanguagesChanged
\* once: 'typescript' is mapped or not, no other identifier ever is.  The
\* coordinator was constructed with parseImmediately = false, so nothing has
\* been parsed yet.
InitService ==
    /\ registered \in SUBSET {"typescript"}
    /\ cache = [l \in Langs |-> NoEntry]
    /\ fetchCount = [l \in Langs |-> 0]
    /\ broadcasts = [l \in Langs |-> 0]
    /\ unhandled = [l \in Langs |-> 0]
    /\ asyncWaiting = [l \in Langs |-> 0]
    /\ asyncOutcomes = [l \in Langs |-> {}]
    /\ lastSync = [l \in Langs |-> "notcalled"]
    /\ requests = 0
    /\ attempts = <<>>
    /\ store = {}
    /\ parseResult = 0
    /\ coordDisposed = FALSE
    /\ modelDisposed = FALSE
    /\ docEdits = 0
    /\ sessions = <<>>
    /\ heap = <<>>
    /\ micro = <<>>

Init == InitService /\ InitNoDiff

\* ------------------------------------------------- catalog: outside calls
\* TreeSitterLanguages.getOrInitLanguage, called from outside the coordinator
\* (TreeSitterTextModelService.getOrInitLanguage)
CallGetOrInitLanguage(l) ==
    /\ micro = <<>>
    /\ requests < MaxRequests
    /\ requests' = requests + 1
    /\ lastSync' = [lastSync EXCEPT ![l] = GetOrInitLanguage(l)]
    /\ cache' = CacheAfterCall(l, "sync")
    /\ fetchCount' = FetchCountAfterCall(l)
    /\ micro' = JobsAfterCall(l)
    /\ UNCHANGED <<registered, broadcasts, unhandled, asyncWaiting, asyncOutcomes>>
    /\ UNCHANGED <<coordVars, sessionVars>>
    /\ UNCHANGED diffVars

\* TreeSitterLanguages.getLanguage: a cached identifier answers at once,
\* otherwise the call awaits _addLanguage and then the cached promise
CallGetLanguage(l) ==
    /\ micro = <<>>
    /\ requests < MaxRequests
    /\ requests' = requests + 1
    /\ cache' = CacheAfterCall(l, "async")
    /\ fetchCount' = FetchCountAfterCall(l)
    /\ micro' = JobsAfterCall(l)
    /\ IF isCached(l)
       THEN /\ asyncOutcomes' = [asyncOutcomes EXCEPT ![l] = @ \cup {getSyncIfCached(l)}]
            /\ UNCHANGED asyncWaiting
       ELSE /\ asyncWaiting' = [asyncWaiting EXCEPT ![l] = @ + 1]
            /\ UNCHANGED asyncOutcomes
    /\ UNCHANGED <<registered, broadcasts, unhandled, lastSync>>
    /\ UNCHANGED <<coordVars, sessionVars>>
    /\ UNCHANGED diffVars

\* TreeSitterTextModelService._supportedLanguagesChanged: _addGrammar or
\* _removeGrammar of 'typescript', as the setting includes it or not
SupportedLanguagesChanged(includes) ==
    /\ micro = <<>>
    /\ registered' = IF includes THEN registered \cup {"typescript"}
                                 ELSE registered \ {"typescript"}
    /\ registered' # registered
    /\ UNCHANGED <<cache, fetchCount, broadcasts, unhandled, asyncWaiting,
                   asyncOutcomes, lastSync, requests>>
    /\ UNCHANGED <<coordVars, sessionVars, micro>>
    /\ UNCHANGED diffVars

SettleReactions_late(l, ok) ==
    <<Job("addLanguage", 0, 0, l), Job("setResult", 0, 0, l)>>

\* the reactions to the settled fetch: the `then` of PromiseWithSyncAccess was
\* registered in its constructor, before _addLanguage awaited the promise
SettleReactions(l, ok) ==
    IF ok
    THEN <<Job("setResult", 0, 0, l), Job("addLanguage", 0, 0, l)>>
    ELSE <<Job("addLanguage", 0, 0, l), Job("setResult", 0, 0, l)>>

\* the file service (and Parser.Language.load) settle the fetch of a mapped
\* identifier.  The reactions of the cached promise run in registration
\* order; on rejection the `.catch` of PromiseWithSyncAccess is one tick
\* behind the `await` in _addLanguage.
LoadSettle(l, ok) ==
    /\ micro = <<>>
    /\ cache[l].promise = "pending"
    /\ cache' = [cache EXCEPT ![l].promise = IF ok THEN "grammar" ELSE "rejected"]
    /\ micro' = SettleReactions(l, ok)
    /\ UNCHANGED <<registered, fetchCount, broadcasts, unhandled, asyncWaiting,
                   asyncOutcomes, lastSync, requests>>
    /\ UNCHANGED <<coordVars, sessionVars>>
    /\ UNCHANGED diffVars

\* PromiseWithSyncAccess: the then/catch callback that records _result
JobSetResult ==
    /\ micro # <<>>
    /\ Head(micro).k = "setResult"
    /\ LET l == Head(micro).l IN
       cache' = [cache EXCEPT ![l].result = ResultOf(cache[l].promise)]
    /\ micro' = Tail(micro)
    /\ UNCHANGED <<registered, fetchCount, broadcasts, unhandled, asyncWaiting,
                   asyncOutcomes, lastSync, requests>>
    /\ UNCHANGED <<coordVars, sessionVars>>
    /\ UNCHANGED diffVars

BroadcastFires_always(l) == cache[l].promise # "rejected"

\* _addLanguage after its await: `if (!language) return` else fire
BroadcastFires(l) == cache[l].promise = "grammar"

Woken_none(l) == {}

\* the listeners of onDidAddLanguage registered by _getLanguage: each is
\* removed (dispose(disposables)) and its promise resolved
Woken(l) == {a \in DOMAIN attempts : attempts[a].listening /\ attempts[a].lang = l}

\* _addLanguage resumes after `await this._languages.get(languageId)`.  A
\* rejected fetch makes the await throw: _addLanguage's own promise rejects,
\* which getLanguage passes on to its caller and getOrInitLanguage leaves
\* unhandled.  getLanguage callers settle with the cached promise.
JobAddLanguage ==
    /\ micro # <<>>
    /\ Head(micro).k = "addLanguage"
    /\ LET l == Head(micro).l
           p == cache[l].promise
           woken == IF BroadcastFires(l) THEN Woken(l) ELSE {}
       IN
       /\ broadcasts' = IF BroadcastFires(l)
                        THEN [broadcasts EXCEPT ![l] = @ + 1] ELSE broadcasts
       /\ unhandled' = IF p = "rejected" /\ cache[l].starter = "sync"
                       THEN [unhandled EXCEPT ![l] = @ + 1] ELSE unhandled
       /\ asyncOutcomes' = IF asyncWaiting[l] > 0
                           THEN [asyncOutcomes EXCEPT ![l] = @ \cup {p}]
                           ELSE asyncOutcomes
       /\ asyncWaiting' = [asyncWaiting EXCEPT ![l] = 0]
       /\ attempts' = [a \in DOMAIN attempts |->
                         IF a \in woken
                         THEN [attempts[a] EXCEPT !.listening = FALSE, !.pc = "ready",
                                                  !.settles = @ + 1]
                         ELSE attempts[a]]
       /\ micro' = Tail(micro) \o
                   SelectSeq([a \in 1..Len(attempts) |->
                                 IF a \in woken THEN Job("construct", a, 0, l)
                                                ELSE Job("none", 0, 0, "")],
                             LAMBDA j : j.k = "construct")
    /\ UNCHANGED <<registered, cache, fetchCount, lastSync, requests>>
    /\ UNCHANGED <<store, parseResult, coordDisposed, modelDisposed>>
    /\ UNCHANGED sessionVars
    /\ UNCHANGED diffVars


\* ------------------------------------------------- Document Session Coordinator
ClearedStore_none == {}

\* parse(): `this._languageSessionDisposables.clear()` disposes whatever the
\* store holds: the cancellation of the token, the session, the content
\* listener
ClearedStore == store

\* parse(): `catch (e) { if (isCancellationError(e)) return; throw e; }`
ParseCatch(e) == IF e = "CancellationError" THEN "cancelled" ELSE "threw"

CancelWait_keepListener(att) ==
    [att EXCEPT !.cancelled = TRUE,
                !.settles = IF att.listening THEN @ + 1 ELSE @,
                !.pc = IF @ = "wait" THEN ParseCatch("CancellationError") ELSE @]

\* token.onCancellationRequested in _getLanguage: a pending wait removes its
\* onDidAddLanguage listener (dispose(disposables)) and rejects with a
\* CancellationError; an attempt that is past its wait only has its token
\* marked
CancelWait(att) ==
    [att EXCEPT !.cancelled = TRUE, !.listening = FALSE,
                !.settles = IF att.listening THEN @ + 1 ELSE @,
                !.pc = IF @ = "wait" THEN ParseCatch("CancellationError") ELSE @]

\* cancelOnDispose fires for the attempts `as`: their tokens are cancelled
CancelAttempts(as) ==
    [a \in DOMAIN attempts |-> IF a \in as THEN CancelWait(attempts[a]) ELSE attempts[a]]

\* the sessions added to the store by the attempts `as` are disposed and
\* their content listeners removed
DisposeSessions_keep(as) == sessions

DisposeSessions(as) ==
    [s \in DOMAIN sessions |->
        IF sessions[s].attempt \in as THEN DisposeSession(sessions[s]) ELSE sessions[s]]

\* TreeSitterParseResult.dispose: `this._tree?.delete()`
DisposeTrees(as) ==
    [h \in DOMAIN heap |->
        IF \E s \in DOMAIN sessions : sessions[s].attempt \in as /\ sessions[s].tree = h
        THEN DeleteTree(heap[h]) ELSE heap[h]]

\* TextModelTreeSitter.parse(languageId) up to its first await, entered from
\* _onDidChangeLanguage or called directly: clear the store, drop
\* _parseResult, take a new token, and _getLanguage: a grammar the catalog
\* already holds resolves at once, otherwise the attempt listens for
\* onDidAddLanguage
ParseCall(l) ==
    /\ micro = <<>>
    /\ ~coordDisposed
    /\ Len(attempts) < MaxParses
    /\ LET a == Len(attempts) + 1
           got == GetOrInitLanguage(l)
           cancelled == CancelAttempts(ClearedStore)
       IN
       /\ attempts' = Append(cancelled,
                             [lang |-> l, cancelled |-> FALSE,
                              listening |-> got # "grammar",
                              pc |-> IF got = "grammar" THEN "ready" ELSE "wait",
                              settles |-> 0, session |-> 0])
       /\ store' = (store \ ClearedStore) \cup {a}
       /\ sessions' = DisposeSessions(ClearedStore)
       /\ heap' = DisposeTrees(ClearedStore)
       /\ lastSync' = [lastSync EXCEPT ![l] = got]
       /\ micro' = JobsAfterCall(l) \o
                   (IF got = "grammar" THEN <<Job("construct", a, 0, l)>> ELSE <<>>)
    /\ parseResult' = 0
    /\ cache' = CacheAfterCall(l, "sync")
    /\ fetchCount' = FetchCountAfterCall(l)
    /\ UNCHANGED <<registered, broadcasts, unhandled, asyncWaiting, asyncOutcomes, requests>>
    /\ UNCHANGED <<coordDisposed, modelDisposed, docEdits>>
    /\ UNCHANGED diffVars

\* parse() after `await this._getLanguage` and `await getParserClass()` (the
\* class is loaded by then: _fetchLanguage needed it to load the grammar):
\* return if the token was cancelled, else construct the session, publish it
\* as _parseResult, subscribe it to content changes and start the first
\* parse with an empty change list
JobConstruct ==
    /\ micro # <<>>
    /\ Head(micro).k = "construct"
    /\ LET a == Head(micro).s
           s == Len(sessions) + 1
           acc == OnDidChangeContent(
                     [sessions |-> Append(sessions, NewSession(attempts[a].lang, a)),
                      heap |-> heap, micro |-> Tail(micro)],
                     s, docEdits, 0)
       IN
       IF attempts[a].cancelled
       THEN /\ attempts' = [attempts EXCEPT ![a].pc = "returned"]
            /\ micro' = Tail(micro)
            /\ UNCHANGED <<parseResult, sessions, heap>>
       ELSE /\ attempts' = [attempts EXCEPT ![a].pc = "constructed", ![a].session = s]
            /\ parseResult' = s
            /\ sessions' = acc.sessions
            /\ heap' = acc.heap
            /\ micro' = acc.micro
    /\ UNCHANGED <<store, coordDisposed, modelDisposed, docEdits>>
    /\ UNCHANGED catalogVars
    /\ UNCHANGED diffVars

\* the document applies a batch of n edits and fires onDidChangeContent;
\* every subscribed session runs onDidChangeContent synchronously
ContentChange(n) ==
    /\ micro = <<>>
    /\ ~modelDisposed
    /\ docEdits + n <= MaxEdits
    /\ docEdits' = docEdits + n
    /\ LET acc == DeliverAll([sessions |-> sessions, heap |-> heap, micro |-> <<>>],
                             1, docEdits + n, n)
       IN /\ sessions' = acc.sessions
          /\ heap' = acc.heap
          /\ micro' = acc.micro
    /\ UNCHANGED <<catalogVars, coordVars>>
    /\ UNCHANGED diffVars

\* the document applies a batch of n edits and, in the diff that follows,
\* the tree library answers a traversal step differently for the live tree
\* and for its copy, so findChangedNodes throws.  What the library answers
\* is its own affair; the listener's promise rejects and nobody handles it.
ContentChangeDesync(n) ==
    /\ micro = <<>>
    /\ ~modelDisposed
    /\ docEdits + n <= MaxEdits
    /\ \E s \in DOMAIN sessions : sessions[s].subscribed /\ sessions[s].tree # 0
    /\ docEdits' = docEdits + n
    /\ LET acc == DeliverAllFault([sessions |-> sessions, heap |-> heap, micro |-> <<>>],
                                  1, docEdits + n, n)
       IN /\ sessions' = acc.sessions
          /\ heap' = acc.heap
          /\ micro' = acc.micro
    /\ UNCHANGED <<catalogVars, coordVars>>
    /\ UNCHANGED diffVars

\* the document is disposed and the service disposes the coordinator
\* (onModelRemoved -> deleteAndDispose): the emitter and the store go
DisposeModel ==
    /\ micro = <<>>
    /\ ~coordDisposed
    /\ coordDisposed' = TRUE
    /\ modelDisposed' = TRUE
    /\ attempts' = CancelAttempts(store)
    /\ sessions' = DisposeSessions(store)
    /\ heap' = DisposeTrees(store)
    /\ store' = {}
    /\ UNCHANGED <<parseResult, docEdits, micro>>
    /\ UNCHANGED catalogVars
    /\ UNCHANGED diffVars


\* ------------------------------------------------- Parse Session: the queue
\* the queue callback of the next task, once this one's promise has settled
StartNext(s, t) ==
    IF t < Len(sessions[s].tasks) /\ sessions[s].tasks[t + 1].pc = "queued"
    THEN <<Job("start", s, t + 1, "")>>
    ELSE <<>>

SkipJobs_resolve(s, t) == <<Job("notify", s, t, "")>>

\* the queue callback returns early on a disposed session without calling
\* resolve: the caller of onDidChangeContent is never resumed
SkipJobs(s, t) == <<>>

\* queue callback on a disposed session: `if (this.isDisposed) return`
JobStartSkip ==
    /\ micro # <<>>
    /\ Head(micro).k = "start"
    /\ LET s == Head(micro).s
           t == Head(micro).t
       IN /\ sessions[s].disposed
          /\ sessions' = [sessions EXCEPT ![s].tasks[t].pc = "skipped"]
          /\ micro' = Tail(micro) \o SkipJobs(s, t) \o StartNext(s, t)
    /\ UNCHANGED <<docEdits, heap>>
    /\ UNCHANGED <<catalogVars, coordVars>>
    /\ UNCHANGED diffVars

\* _parseAndYield: `await new Promise(resolve => setTimeout0(resolve))` has
\* returned control to the event loop; sinceYield counts the slices a session
\* has run since it last did
Yielded(n) == 0

\* one parser time slice of task t of session s; the loop then awaits
\* setTimeout0
RunSlice(s, t, produced, start) ==
    LET made == Slice(produced, start) IN
    /\ heap' = heap \o made
    /\ sessions' = [sessions EXCEPT
                      ![s].newEdits = IF sessions[s].tasks[t].pc = "queued"
                                      THEN ClearFlag(@) ELSE @,
                      ![s].sinceYield = IF sessions[s].tasks[t].pc = "queued"
                                        THEN @ + 1 ELSE Yielded(@) + 1,
                      ![s].tasks[t].pc = "yield",
                      ![s].tasks[t].start = start,
                      ![s].tasks[t].tree = IF produced THEN Len(heap) + 1 ELSE 0]

\* queue callback: _parseAndUpdateTree -> _parse -> _parseAndYield clears
\* _newEdits and runs the first slice
JobStartSlice(produced) ==
    /\ micro # <<>>
    /\ Head(micro).k = "start"
    /\ LET s == Head(micro).s
           t == Head(micro).t
       IN /\ ~sessions[s].disposed
          /\ RunSlice(s, t, produced, docEdits)
    /\ micro' = Tail(micro)
    /\ UNCHANGED docEdits
    /\ UNCHANGED <<catalogVars, coordVars>>
    /\ UNCHANGED diffVars

\* _parseAndYield after the yield: `if (model.isDisposed() || this.isDisposed)`
Aborts(s) == modelDisposed \/ sessions[s].disposed

LoopsAgain_ignoreEdits(s, t) == sessions[s].tasks[t].tree = 0

\* _parseAndYield: `while (!tree && !this._newEdits)`
LoopsAgain(s, t) == sessions[s].tasks[t].tree = 0 /\ ~sessions[s].newEdits

\* the setTimeout0 callback of a running loop: not disposed, no tree, no new
\* edits -> the next slice
TimerSlice(s, t, produced) ==
    /\ micro = <<>>
    /\ sessions[s].tasks[t].pc = "yield"
    /\ ~Aborts(s)
    /\ LoopsAgain(s, t)
    /\ RunSlice(s, t, produced, sessions[s].tasks[t].start)
    /\ UNCHANGED <<docEdits, micro>>
    /\ UNCHANGED <<catalogVars, coordVars>>
    /\ UNCHANGED diffVars

\* the setTimeout0 callback of a running loop that ends: it returns nothing
\* when disposed, else the tree of the last slice (possibly none)
TimerExit(s, t) ==
    /\ micro = <<>>
    /\ sessions[s].tasks[t].pc = "yield"
    /\ Aborts(s) \/ ~LoopsAgain(s, t)
    /\ sessions' = [sessions EXCEPT
                      ![s].sinceYield = Yielded(@),
                      ![s].tasks[t].pc = "finishing",
                      ![s].tasks[t].ret = IF Aborts(s) THEN 0 ELSE sessions[s].tasks[t].tree]
    /\ micro' = <<Job("commit", s, t, "")>>
    /\ UNCHANGED <<docEdits, heap>>
    /\ UNCHANGED <<catalogVars, coordVars>>
    /\ UNCHANGED diffVars

\* _parseAndUpdateTree after `await this._parse(model)`: the setter releases
\* the previous tree and stores the new one unless edits arrived; then the
\* queue callback resolves the promise of onDidChangeContent
JobCommit ==
    /\ micro # <<>>
    /\ Head(micro).k = "commit"
    /\ LET s == Head(micro).s
           t == Head(micro).t
           sess == sessions[s]
           ret == sess.tasks[t].ret
           commits == CommitGuard(sess)
           heap1 == IF commits /\ sess.tree # 0
                    THEN [heap EXCEPT ![sess.tree] = DeleteTree(@)] ELSE heap
       IN /\ heap' = IF commits /\ ret # 0
                     THEN [heap1 EXCEPT ![ret].committed = TRUE, ![ret].commitAt = docEdits]
                     ELSE heap1
          /\ sessions' = [sessions EXCEPT
                            ![s].tree = IF commits THEN ret ELSE @,
                            ![s].tasks[t].pc = "resolved",
                            ![s].tasks[t].end = docEdits,
                            ![s].tasks[t].resolved = TRUE]
          /\ micro' = Tail(micro) \o <<Job("notify", s, t, "")>> \o StartNext(s, t)
    /\ UNCHANGED docEdits
    /\ UNCHANGED <<catalogVars, coordVars>>
    /\ UNCHANGED diffVars

\* TextModelTreeSitter._onDidChangeContent after its await:
\* _onDidChangeParseResult.fire(ranges); a disposed emitter delivers nothing
JobNotify ==
    /\ micro # <<>>
    /\ Head(micro).k = "notify"
    /\ LET s == Head(micro).s
           t == Head(micro).t
       IN sessions' = [sessions EXCEPT
                         ![s].tasks[t].pc = IF @ = "resolved" THEN "done" ELSE @,
                         ![s].tasks[t].notified = IF coordDisposed THEN @ ELSE @ + 1]
    /\ micro' = Tail(micro)
    /\ UNCHANGED <<docEdits, heap>>
    /\ UNCHANGED <<catalogVars, coordVars>>
    /\ UNCHANGED diffVars

\* ------------------------------------------------- specifications
\* The coordinator and its sessions over the catalog: language changes,
\* content changes, disposal, time slices and grammar loads.
Next ==
    \/ \E l \in Langs, ok \in BOOLEAN : LoadSettle(l, ok)
    \/ JobSetResult
    \/ JobAddLanguage
    \/ \E l \in Langs : ParseCall(l)
    \/ JobConstruct
    \/ \E n \in 1..MaxBatch : ContentChange(n)
    \/ DisposeModel
    \/ JobStartSkip
    \/ \E produced \in BOOLEAN : JobStartSlice(produced)
    \/ \E s \in DOMAIN sessions : \E t \in DOMAIN sessions[s].tasks, produced \in BOOLEAN :
          TimerSlice(s, t, produced)
    \/ \E s \in DOMAIN sessions : \E t \in DOMAIN sessions[s].tasks : TimerExit(s, t)
    \/ JobCommit
    \/ JobNotify

Spec == Init /\ [][Next]_vars

\* The catalog under outside callers, changes of the grammar mapping and a
\* coordinator that binds languages; the document is not edited, so no
\* reparse is ever queued behind another.
NextCatalog ==
    \/ \E l \in Langs : CallGetOrInitLanguage(l)
    \/ \E l \in Langs : CallGetLanguage(l)
    \/ \E b \in BOOLEAN : SupportedLanguagesChanged(b)
    \/ \E l \in Langs, ok \in BOOLEAN : LoadSettle(l, ok)
    \/ JobSetResult
    \/ JobAddLanguage
    \/ \E l \in Langs : ParseCall(l)
    \/ JobConstruct
    \/ DisposeModel
    \/ \E produced \in BOOLEAN : JobStartSlice(produced)
    \/ \E s \in DOMAIN sessions : \E t \in DOMAIN sessions[s].tasks, produced \in BOOLEAN :
          TimerSlice(s, t, produced)
    \/ \E s \in DOMAIN sessions : \E t \in DOMAIN sessions[s].tasks : TimerExit(s, t)
    \/ JobCommit
    \/ JobNotify

SpecCatalog == Init /\ [][NextCatalog]_vars

\* The event loop runs every queued microtask and every due timer, and the
\* parser, given enough time slices, produces a tree.
Microtask ==
    \/ JobSetResult
    \/ JobAddLanguage
    \/ JobConstruct
    \/ JobStartSkip
    \/ \E produced \in BOOLEAN : JobStartSlice(produced)
    \/ JobCommit
    \/ JobNotify

TimerEnds == \E s \in DOMAIN sessions : \E t \in DOMAIN sessions[s].tasks : TimerExit(s, t)

SliceProducesTree ==
    \E s \in DOMAIN sessions : \E t \in DOMAIN sessions[s].tasks : TimerSlice(s, t, TRUE)

SpecLive ==
    /\ Init
    /\ [][Next]_vars
    /\ WF_vars(Microtask)
    /\ WF_vars(TimerEnds)
    /\ WF_vars(SliceProducesTree)

\* ------------------------------------------------- structural actions
\* TreeSitterParseResult.onDidChangeContent up to the diff, for one change
\* that replaces `del` characters by `ins` characters inside the text of a
\* leaf: copy the tree, apply the edit, diff the two trees.  `spill` tells
\* whether the library also marks the token before the leaf.
ReportChange(leaf, offset, del, ins, spill) ==
    /\ diffEdits < MaxDiffEdits
    /\ Len(pending) < MaxPending
    /\ leaf \in Leaves(tree)
    /\ del + ins >= 1
    /\ tree[leaf].startIndex <= offset
    /\ offset + del <= tree[leaf].endIndex
    /\ tree[leaf].endIndex - tree[leaf].startIndex - del + ins >= 1
    /\ spill => LeafBefore(tree, leaf) # {}
    /\ LET c == ContentChangeOf(docLines, offset, del, ins)
           textNow == TextAfter(docLines, c)
           e == EditOf(textNow, c)
           alsoMarked == IF spill
                         THEN UNION {PathTo(tree, b) : b \in LeafBefore(tree, leaf)}
                         ELSE {}
           base == TreeCopy(tree)
           edited == TreeEditOf(tree, e, alsoMarked)
           found == FindChangedNodes(edited, base)
       IN /\ docLines' = textNow
          /\ oldTree' = base
          /\ tree' = edited
          /\ change' = c
          /\ treeEdit' = e
          /\ changedNodes' = found.pairs
          /\ ranges' = IF found.fault THEN <<>>
                       ELSE CalculateRangeChange(edited, base, found.pairs)
          /\ diffNote' = [called |-> TRUE, batch |-> FALSE, leaf |-> leaf,
                          before |-> docLines, spill |-> alsoMarked,
                          fault |-> found.fault, visited |-> found.visited]
          /\ pending' = IF found.fault THEN pending
                        ELSE Append(pending, Result(TRUE, ranges'))
    /\ diffEdits' = diffEdits + 1
    /\ UNCHANGED published
    /\ UNCHANGED <<catalogVars, coordVars, sessionVars, micro>>

\* onDidChangeContent up to the diff for an event with two changes that do
\* not overlap: the first replaces `del` characters by `ins` inside a leaf,
\* the second replaces the first character of the earlier leaf `leaf2` by
\* another one, so the offsets of the event are the same whether they count
\* in the text before the event or in the text the change before left.
\* _applyEdits reads every newEndPosition from the model, which already has
\* both changes applied.
ReportChangeList(leaf, offset, del, ins, leaf2) ==
    /\ diffEdits + 2 <= MaxDiffEdits
    /\ Len(pending) < MaxPending
    /\ leaf \in Leaves(tree)
    /\ leaf2 \in Leaves(tree)
    /\ del + ins >= 1
    /\ tree[leaf].startIndex <= offset
    /\ offset + del <= tree[leaf].endIndex
    /\ tree[leaf].endIndex - tree[leaf].startIndex - del + ins >= 1
    /\ tree[leaf2].endIndex < offset
    /\ LET c1 == ContentChangeOf(docLines, offset, del, ins)
           c2 == ContentChangeOf(docLines, tree[leaf2].startIndex, 1, 1)
           textNow == TextAfter(TextAfter(docLines, c1), c2)
           e1 == EditOf(textNow, c1)
           e2 == EditOf(textNow, c2)
           base == TreeCopy(tree)
           edited == TreeEditOf(TreeEditOf(tree, e1, {}), e2, {})
           found == FindChangedNodes(edited, base)
       IN /\ docLines' = textNow
          /\ oldTree' = base
          /\ tree' = edited
          /\ change' = c2
          /\ treeEdit' = e2
          /\ changedNodes' = found.pairs
          /\ ranges' = IF found.fault THEN <<>>
                       ELSE CalculateRangeChange(edited, base, found.pairs)
          /\ diffNote' = [called |-> FALSE, batch |-> TRUE, leaf |-> leaf,
                          before |-> docLines, spill |-> {},
                          fault |-> found.fault, visited |-> found.visited]
          /\ pending' = IF found.fault THEN pending
                        ELSE Append(pending, Result(TRUE, ranges'))
    /\ diffEdits' = diffEdits + 2
    /\ UNCHANGED published
    /\ UNCHANGED <<catalogVars, coordVars, sessionVars, micro>>

\* onDidChangeContent of a session that has no tree: `this.tree?.copy()` and
\* `this.tree?.edit` do nothing, no diff is made and the result is undefined.
\* The change list is empty (del = ins = 0: the coordinator's own first call
\* from parse) or holds one change of the text.
ReportWithoutTree(offset, del, ins) ==
    /\ diffEdits < MaxDiffEdits
    /\ Len(pending) < MaxPending
    /\ tree = <<>>
    /\ offset + del <= ValueLength(docLines)
    /\ PositionAt(docLines, offset).lineNumber = PositionAt(docLines, offset + del).lineNumber
    /\ del + ins = 0 => offset = 0
    /\ LET c == ContentChangeOf(docLines, offset, del, ins) IN
       /\ docLines' = TextAfter(docLines, c)
       /\ change' = IF del + ins = 0 THEN NoChange ELSE c
    /\ oldTree' = <<>>
    /\ treeEdit' = NoChange
    /\ changedNodes' = <<>>
    /\ ranges' = <<>>
    /\ diffNote' = NoDiff
    /\ pending' = Append(pending, Result(FALSE, <<>>))
    /\ diffEdits' = diffEdits + 1
    /\ UNCHANGED <<tree, published>>
    /\ UNCHANGED <<catalogVars, coordVars, sessionVars, micro>>

\* _parseAndUpdateTree commits the session's first tree: the tree a grammar
\* gives the current text (followed for the texts of ParsedDocuments only)
CommitFirstTree ==
    /\ tree = <<>>
    /\ \E d \in ParsedDocuments : d.text = docLines /\ tree' = d.tree
    /\ UNCHANGED <<docLines, oldTree, change, treeEdit, changedNodes, ranges,
                   diffNote, diffEdits, pending, published>>
    /\ UNCHANGED <<catalogVars, coordVars, sessionVars, micro>>

\* TextModelTreeSitter._onDidChangeContent resumes with the result of the
\* oldest call it still awaits and fires _onDidChangeParseResult
PublishResult ==
    /\ pending # <<>>
    /\ published' = [fired |-> TRUE, ranges |-> PublishedRanges(Head(pending), docLines)]
    /\ pending' = Tail(pending)
    /\ UNCHANGED <<docLines, tree, oldTree, change, treeEdit, changedNodes, ranges,
                   diffNote, diffEdits>>
    /\ UNCHANGED <<catalogVars, coordVars, sessionVars, micro>>

\* _parseAndUpdateTree commits the tree the parser made of the current text:
\* the same nodes at their current positions, none marked.  The locals of
\* the last call of onDidChangeContent are no longer followed.
CommitParsedTree ==
    /\ \E c \in DOMAIN tree : tree[c].hasChanges
    /\ tree' = [c \in DOMAIN tree |-> [tree[c] EXCEPT !.hasChanges = FALSE]]
    /\ oldTree' = <<>>
    /\ change' = NoChange
    /\ treeEdit' = NoChange
    /\ changedNodes' = <<>>
    /\ ranges' = <<>>
    /\ diffNote' = NoDiff
    /\ UNCHANGED <<docLines, diffEdits, pending, published>>
    /\ UNCHANGED <<catalogVars, coordVars, sessionVars, micro>>

\* The coordinator and its sessions when the tree library may make the
\* cursors of a diff disagree.
NextFault ==
    \/ \E l \in Langs, ok \in BOOLEAN : LoadSettle(l, ok)
    \/ JobSetResult
    \/ JobAddLanguage
    \/ \E l \in Langs : ParseCall(l)
    \/ JobConstruct
    \/ \E n \in 1..MaxBatch : ContentChange(n)
    \/ \E n \in 1..MaxBatch : ContentChangeDesync(n)
    \/ DisposeModel
    \/ JobStartSkip
    \/ \E produced \in BOOLEAN : JobStartSlice(produced)
    \/ \E s \in DOMAIN sessions : \E t \in DOMAIN sessions[s].tasks, produced \in BOOLEAN :
          TimerSlice(s, t, produced)
    \/ \E s \in DOMAIN sessions : \E t \in DOMAIN sessions[s].tasks : TimerExit(s, t)
    \/ JobCommit
    \/ JobNotify

SpecFault == Init /\ [][NextFault]_vars

\* The diff of a session's tree against its baseline copy, under changes
\* inside leaves, changes before the first tree, commits of parsed trees and
\* the publication of the results.
NextDiff ==
    \/ \E leaf \in Leaves(tree) :
          \E offset \in tree[leaf].startIndex..tree[leaf].endIndex,
             del \in 0..1, ins \in 0..1, spill \in BOOLEAN :
             ReportChange(leaf, offset, del, ins, spill)
    \/ \E leaf \in Leaves(tree), leaf2 \in Leaves(tree) :
          \E offset \in tree[leaf].startIndex..tree[leaf].endIndex,
             del \in 0..1, ins \in 0..1 :
             ReportChangeList(leaf, offset, del, ins, leaf2)
    \/ \E offset \in {0, ValueLength(docLines)}, del \in {0}, ins \in 0..1 :
          ReportWithoutTree(offset, del, ins)
    \/ CommitParsedTree
    \/ CommitFirstTree
    \/ PublishResult

\* the service as constructed, with one parsed document tracked structurally
InitStructural == InitService /\ registered = {} /\ InitDiff

SpecDiff == InitStructural /\ [][NextDiff]_vars

\* ------------------------------------------------- properties
SessionIds == 1..MaxParses
EditCounts == 0..MaxEdits

Exists(s) == s \in DOMAIN sessions
TaskIds(s) == DOMAIN sessions[s].tasks

\* C1: a tree is stored as the session's current tree only if no edit was
\* applied between the start of the reparse that produced it (when _newEdits
\* was cleared) and the commit check; a tree produced by a reparse during
\* which an edit arrived is never current.
C1_CommitOnlyWithoutEdits ==
    /\ \A h \in DOMAIN heap :
          heap[h].committed => heap[h].commitAt = heap[h].start /\ heap[h].base = heap[h].start
    /\ \A s \in DOMAIN sessions :
          /\ sessions[s].tree # 0 => heap[sessions[s].tree].committed
          /\ \A t \in TaskIds(s) :
                LET task == sessions[s].tasks[t] IN
                task.pc \in Settled /\ task.ret # 0 /\ task.end # task.start
                   => ~heap[task.ret].committed /\ sessions[s].tree # task.ret

\* a reparse produced a tree, an edit arrived before its commit check, and
\* the tree was dropped
C1_Witness ==
    \E s \in DOMAIN sessions : \E t \in TaskIds(s) :
        LET task == sessions[s].tasks[t] IN
        /\ task.pc \in Settled
        /\ task.ret # 0
        /\ task.end > task.start
        /\ ~heap[task.ret].committed
        /\ ~sessions[s].disposed

\* a session's current tree was produced by a reparse that started after the
\* last edit so far, and _newEdits is clear
Fresh(s) ==
    /\ sessions[s].tree # 0
    /\ heap[sessions[s].tree].start = docEdits
    /\ heap[sessions[s].tree].base = docEdits
    /\ heap[sessions[s].tree].patches = <<>>
    /\ ~sessions[s].newEdits

Quiet(s) == micro = <<>> /\ \A t \in TaskIds(s) : sessions[s].tasks[t].pc \in Settled

\* C2: however many edits arrive while reparses are running, once edits stop
\* (the edit count stays k) a session that is not disposed eventually has as
\* current a tree produced by a reparse started after the last edit, with
\* _newEdits clear; and whenever its queue has drained, its current tree is
\* that one, never the tree of an earlier reparse.
C2_EventuallyFresh ==
    /\ \A s \in SessionIds : \A k \in EditCounts :
          (Exists(s) /\ docEdits = k)
             ~> (Exists(s) /\ (Fresh(s) \/ sessions[s].disposed \/ docEdits > k))
    /\ [](\A s \in DOMAIN sessions : Quiet(s) /\ ~sessions[s].disposed => Fresh(s))

\* two reparses were superseded by edits and a later one committed the tree
C2_Witness ==
    \E s \in DOMAIN sessions :
        /\ ~sessions[s].disposed
        /\ Fresh(s)
        /\ Quiet(s)
        /\ Len(sessions[s].tasks) >= 3
        /\ \A t \in 1..2 : sessions[s].tasks[t].end > sessions[s].tasks[t].start

\* C3: per session at most one reparse is active, and a reparse has started
\* only if every reparse enqueued before it has settled.
C3_OneReparseAtATime ==
    \A s \in DOMAIN sessions :
        /\ Cardinality({t \in TaskIds(s) : sessions[s].tasks[t].pc \in Active}) <= 1
        /\ \A t \in TaskIds(s) :
              sessions[s].tasks[t].pc # "queued"
                 => \A u \in 1..(t - 1) : sessions[s].tasks[u].pc \in Settled

\* a reparse is running while an earlier one has settled and a later one waits
C3_Witness ==
    \E s \in DOMAIN sessions : \E t \in TaskIds(s) :
        /\ t > 1
        /\ sessions[s].tasks[t].pc = "yield"
        /\ t < Len(sessions[s].tasks)
        /\ sessions[s].tasks[t + 1].pc = "queued"

\* the edits a tree incorporates through Tree.edit, in the order applied,
\* are exactly those after its base up to `last`
PatchedUpTo(tr, last) ==
    tr.patches = [i \in 1..(last - tr.base) |-> tr.base + i]

\* C4: whenever a session has a current tree, every edit delivered to the
\* session so far is in it, in arrival order: part of the text the tree was
\* parsed from, or patched in afterwards.
C4_TreeNeverStale ==
    \A s \in DOMAIN sessions :
        sessions[s].tree # 0
           => /\ heap[sessions[s].tree].base <= sessions[s].lastEdit
              /\ PatchedUpTo(heap[sessions[s].tree], sessions[s].lastEdit)

\* a current tree parsed after one edit and patched with a later one
C4_Witness ==
    \E s \in DOMAIN sessions :
        /\ ~sessions[s].disposed
        /\ sessions[s].tree # 0
        /\ heap[sessions[s].tree].base >= 1
        /\ Len(heap[sessions[s].tree].patches) >= 1

\* the reparse of a task has run to its end
Finished(task) == task.pc \in {"resolved", "done"}

\* C5 as stated: the result of onDidChangeContent is available to the caller
\* while the reparse it enqueued is still queued or running.
C5_Original ==
    \A s \in DOMAIN sessions : \A t \in TaskIds(s) :
        micro = <<>> /\ sessions[s].tasks[t].pc \in {"queued", "yield"}
           => sessions[s].tasks[t].resolved

\* C5 amended: the result of onDidChangeContent is delivered exactly when the
\* reparse it enqueued has run to its end, never while that reparse is
\* queued or running, and the coordinator publishes only a delivered result.
C5_ResultAfterReparse ==
    \A s \in DOMAIN sessions : \A t \in TaskIds(s) :
        /\ sessions[s].tasks[t].resolved <=> Finished(sessions[s].tasks[t])
        /\ sessions[s].tasks[t].notified > 0 => sessions[s].tasks[t].resolved

\* one result delivered while a later reparse of the same session is running
C5_Witness ==
    \E s \in DOMAIN sessions : \E t \in TaskIds(s) :
        /\ t > 1
        /\ sessions[s].tasks[t].pc = "yield"
        /\ ~sessions[s].tasks[t].resolved
        /\ sessions[s].tasks[t - 1].resolved
        /\ sessions[s].tasks[t - 1].notified = 1

\* C6 as stated: every content change forwarded to a session (and the first
\* parse) gets exactly one notification from a coordinator that is alive,
\* once the session's queue has passed it.
C6_Original ==
    \A s \in DOMAIN sessions : \A t \in TaskIds(s) :
        micro = <<>> /\ ~coordDisposed /\ sessions[s].tasks[t].pc \in Settled
           => sessions[s].tasks[t].notified = 1

\* C6 amended: never more than one notification per content change; exactly
\* one, published when its reparse has run to its end, while the coordinator
\* is not disposed; none for a change whose reparse was still queued when the
\* session was disposed.
C6_OneNotificationPerReparse ==
    \A s \in DOMAIN sessions : \A t \in TaskIds(s) :
        LET task == sessions[s].tasks[t] IN
        /\ task.notified <= 1
        /\ task.notified = 1 => task.pc = "done"
        /\ task.pc = "done" => task.notified = 1 \/ coordDisposed
        /\ task.pc = "skipped" => task.notified = 0 /\ sessions[s].disposed

\* under a coordinator that is alive, a session that was notified of its
\* first parse and whose queued reparse was dropped at disposal
C6_Witness ==
    \E s \in DOMAIN sessions : \E t \in TaskIds(s) :
        /\ ~coordDisposed
        /\ micro = <<>>
        /\ sessions[s].tasks[t].pc = "skipped"
        /\ sessions[s].tasks[1].notified = 1

\* C7: a parse() activation whose grammar wait was cancelled by a later
\* parse() (a language switch) never constructs a session, even once its
\* grammar is available; every session was constructed by the activation
\* that was the latest one at that moment, for that activation's language.
C7_StaleWaitNeverParses ==
    /\ \A a \in DOMAIN attempts :
          attempts[a].pc \in {"cancelled", "returned"}
             => /\ attempts[a].session = 0
                /\ \A s \in DOMAIN sessions : sessions[s].attempt # a
    /\ \A s \in DOMAIN sessions :
          /\ sessions[s].attempt = sessions[s].latest
          /\ sessions[s].lang = attempts[sessions[s].attempt].lang

\* the wait of the first activation was cancelled, its grammar arrived
\* later and was broadcast, and the only session belongs to the second
\* activation and has committed its first full parse
C7_Witness ==
    /\ Len(attempts) = 2
    /\ attempts[1].pc = "cancelled"
    /\ cache[attempts[1].lang].result = "grammar"
    /\ broadcasts[attempts[1].lang] = 1
    /\ Len(sessions) = 1
    /\ sessions[1].attempt = 2
    /\ sessions[1].tree # 0
    /\ sessions[1].tasks[1].notified = 1

\* some accessor has been called for the identifier
Requested(l) ==
    lastSync[l] # "notcalled" \/ asyncWaiting[l] > 0 \/ asyncOutcomes[l] # {}

\* C8: however many getOrInitLanguage and getLanguage calls are made for an
\* identifier, before, during or after its load, _fetchLanguage runs exactly
\* once for it.
C8_OneFetchPerLanguage ==
    \A l \in Langs :
        /\ fetchCount[l] <= 1
        /\ Requested(l) => fetchCount[l] = 1

\* both accessors were used for a loaded identifier, one of them after the
\* load had settled
C8_Witness ==
    \E l \in Langs :
        /\ fetchCount[l] = 1
        /\ lastSync[l] = "grammar"
        /\ "grammar" \in asyncOutcomes[l]
        /\ requests >= 2

\* C9: onDidAddLanguage fires at most once per identifier, only when the
\* load has produced a grammar and the cache holds it, by the end of the turn
\* in which the load succeeded, and never for a load without a grammar.
C9_BroadcastOncePerLoadedLanguage ==
    \A l \in Langs :
        /\ broadcasts[l] <= 1
        /\ broadcasts[l] = 1 => cache[l].promise = "grammar" /\ cache[l].result = "grammar"
        /\ micro = <<>> /\ cache[l].promise = "grammar" => broadcasts[l] = 1
        /\ cache[l].promise \in {"undefined", "rejected"} => broadcasts[l] = 0

\* one broadcast for a loaded identifier after several lookups, none for an
\* identifier whose load produced no grammar
C9_Witness ==
    /\ \E l \in Langs : broadcasts[l] = 1 /\ lastSync[l] = "grammar" /\ requests >= 2
    /\ \E l \in Langs : cache[l].result = "undefined" /\ broadcasts[l] = 0

\* C10: when the fetch for an identifier has failed, getOrInitLanguage
\* returns nothing for it, no broadcast has fired for it, and the failed
\* load has raised no error (no promise rejection is left unhandled).
C10_FailedFetchIsSilent ==
    \A l \in Langs :
        cache[l].promise = "rejected"
           => /\ GetOrInitLanguage(l) = "undefined"
              /\ lastSync[l] \in {"notcalled", "undefined"}
              /\ broadcasts[l] = 0
              /\ unhandled[l] = 0

\* the future of a cache key has settled, with a value or with an error
SettledFuture(l) == cache[l].promise \in {"grammar", "undefined", "rejected"}

\* C11: getLanguage resolves to nothing, and never fails, for an identifier
\* without a grammar mapping and for one whose fetch failed, whether the call
\* triggered the load, was made during it or after it settled.
C11_GetLanguageResolvesToNothing ==
    \A l \in Langs :
        cache[l].promise \in {"undefined", "rejected"}
           => asyncOutcomes[l] \subseteq {"undefined"}

\* C12 as stated: isCached is true exactly when the key's future has settled.
C12_Original ==
    \A l \in Langs : isCached(l) <=> SettledFuture(l)

\* C12 amended: getSyncIfCached yields a grammar or nothing, a grammar only
\* for a future that settled successfully, nothing for an unknown, a pending
\* and a failed key; isCached is true only for a settled future, and for
\* every settled future once the turn in which it settled has ended.
C12_SyncAccessAfterSettle ==
    \A l \in Langs :
        /\ getSyncIfCached(l) \in {"grammar", "undefined"}
        /\ getSyncIfCached(l) = "grammar" => cache[l].promise = "grammar"
        /\ cache[l].promise \in {"absent", "pending", "rejected"}
              => getSyncIfCached(l) = "undefined"
        /\ isCached(l) => SettledFuture(l)
        /\ micro = <<>> /\ SettledFuture(l) => isCached(l)
        /\ micro = <<>> /\ cache[l].promise = "grammar" => getSyncIfCached(l) = "grammar"

\* a failed key that a later getLanguage call read as nothing, next to a key
\* that is pending or unknown
C12_Witness ==
    \E l, m \in Langs :
        /\ cache[l].promise = "rejected"
        /\ cache[l].result = "error"
        /\ "undefined" \in asyncOutcomes[l]
        /\ cache[m].promise \in {"absent", "pending"}

\* C19: once the catalog holds a settled result for an identifier (a grammar
\* or no grammar), the entry never changes again, so getOrInitLanguage and
\* getLanguage return that same result from then on, whatever is fetched or
\* registered later.
C19_SettledResultIsFinal ==
    [][\A l \in Langs :
          isCached(l)
             => /\ cache'[l] = cache[l]
                /\ fetchCount'[l] = fetchCount[l]
                /\ asyncOutcomes'[l] \subseteq asyncOutcomes[l] \cup {getSyncIfCached(l)}
                /\ lastSync'[l] \in {lastSync[l], getSyncIfCached(l)}]_vars

\* an identifier looked up while it had no mapping, still answered with
\* nothing after the mapping was added
C19_Witness ==
    \E l \in Langs :
        /\ cache[l].result = "undefined"
        /\ l \in registered
        /\ lastSync[l] = "undefined"
        /\ "undefined" \in asyncOutcomes[l]

\* a disposed session runs no parser slice in this step
NoSliceStep(s) ==
    \A t \in DOMAIN sessions[s].tasks :
        /\ sessions'[s].tasks[t].tree = sessions[s].tasks[t].tree
        /\ sessions'[s].tasks[t].pc = "yield" => sessions[s].tasks[t].pc = "yield"

\* C13: once a session is disposed, a reparse loop that was in flight runs no
\* further parser slice and leaves the session's current tree as it is.
C13_DisposedLoopStops ==
    [][\A s \in DOMAIN sessions :
          sessions[s].disposed
             => /\ NoSliceStep(s)
                /\ sessions'[s].tree = sessions[s].tree]_vars

\* C18: a grammar wait is settled exactly once, by the broadcast for its
\* identifier or by the cancellation of its scope, whichever comes first; a
\* wait settled by cancellation makes parse() return without an error and
\* never constructs a session, and nothing that happens later (a broadcast
\* for its identifier included) changes it.
C18_WaitSettledOnce ==
    /\ [](\A a \in DOMAIN attempts :
            /\ attempts[a].settles <= 1
            /\ attempts[a].listening <=> attempts[a].pc = "wait"
            /\ attempts[a].pc = "wait" => attempts[a].settles = 0
            /\ attempts[a].pc # "threw"
            /\ attempts[a].pc = "cancelled"
                  => /\ attempts[a].settles = 1
                     /\ attempts[a].session = 0
                     /\ \A s \in DOMAIN sessions : sessions[s].attempt # a)
    /\ [][\A a \in DOMAIN attempts :
             attempts[a].pc = "cancelled" => attempts'[a] = attempts[a]]_vars

\* two waits for the same identifier: the first was cancelled by the second
\* parse(), the second was resolved by the broadcast that came afterwards
C18_Witness ==
    /\ Len(attempts) = 2
    /\ attempts[1].lang = attempts[2].lang
    /\ attempts[1].pc = "cancelled"
    /\ attempts[1].settles = 1
    /\ attempts[2].pc = "constructed"
    /\ attempts[2].settles = 1
    /\ broadcasts[attempts[1].lang] = 1

\* ---- properties of the structural diff
Flagged(tr) == {c \in DOMAIN tr : tr[c].hasChanges}
Reported == {changedNodes[i].new : i \in DOMAIN changedNodes}

\* the child of the root on the way to node c
TopOf(tr, c) == CHOOSE m \in PathTo(tr, c) : tr[m].parent = RootId

\* host positions in document order
PosLeq(p, q) ==
    p.lineNumber < q.lineNumber \/ (p.lineNumber = q.lineNumber /\ p.column <= q.column)

\* a new range covers the text of node c as it is after the change
Covers(r, c) ==
    /\ PosLeq([lineNumber |-> r.newRange.startLineNumber, column |-> r.newRange.startColumn],
              PositionAt(docLines, tree[c].startIndex))
    /\ PosLeq(PositionAt(docLines, tree[c].endIndex),
              [lineNumber |-> r.newRange.endLineNumber, column |-> r.newRange.endColumn])

\* C14 as stated, read in its favour (the edited leaf is not the root and the
\* edit marks nothing but the leaf and its ancestors): a change inside the
\* text of one leaf yields exactly one Range Change, and it covers the leaf.
C14_Original ==
    diffNote.called /\ diffNote.leaf # RootId /\ diffNote.spill = {}
       => Len(ranges) = 1 /\ Covers(ranges[1], diffNote.leaf)

\* C14 amended: when the leaf and its ancestors are the only marked nodes
\* (no marker is left from an earlier change whose reparse is not committed
\* yet, none on a neighbouring token), there is exactly one Range Change, for
\* the child of the root on the leaf's path, and it covers the leaf; with
\* other markers present there is one Range Change per marked child of the
\* root, exactly one of them covering the leaf; for a tree that is only a
\* root there is none.
C14_OneRangePerMarkedSubtree ==
    diffNote.called
       => LET leaf == diffNote.leaf IN
          /\ leaf = RootId => ranges = <<>>
          /\ leaf # RootId /\ Flagged(tree) = PathTo(tree, leaf)
                => /\ Len(ranges) = 1
                   /\ changedNodes[1].new = TopOf(tree, leaf)
                   /\ Covers(ranges[1], leaf)
          /\ leaf # RootId
                => /\ Cardinality({i \in DOMAIN ranges :
                                     changedNodes[i].new \in PathTo(tree, leaf)}) = 1
                   /\ \A i \in DOMAIN ranges :
                         changedNodes[i].new \in PathTo(tree, leaf) => Covers(ranges[i], leaf)
          /\ Len(ranges) = Cardinality({c \in Flagged(tree) : tree[c].parent = RootId})

\* the second change of a document, made after the reparse of the first was
\* committed, inside a leaf two levels below the root: one Range Change
C14_Witness ==
    /\ diffNote.called
    /\ diffEdits = 2
    /\ diffNote.leaf # RootId
    /\ tree[diffNote.leaf].parent # RootId
    /\ Flagged(tree) = PathTo(tree, diffNote.leaf)
    /\ Len(ranges) = 1

\* the byte length of a node of the live tree
ByteLength(c) == tree[c].endIndex - tree[c].startIndex

\* C15: the old-length of every Range Change is the byte length its node had
\* in the copy taken before the change was applied: the node's length now,
\* less what the change added to it when the change lies inside the node; for
\* a one-character insertion into a token that is the only marked node below
\* the root, the token's length before the insertion.
C15_OldLengthFromBaseline ==
    diffNote.called
       => \A i \in DOMAIN ranges :
             LET c == changedNodes[i].new
                 grown == IF c \in PathTo(tree, diffNote.leaf)
                          THEN change.textLength - change.rangeLength ELSE 0
             IN  /\ ranges[i].oldRangeLength = ByteLength(c) - grown
                 /\ ranges[i].oldRangeLength
                       = oldTree[changedNodes[i].old].endIndex
                            - oldTree[changedNodes[i].old].startIndex
                 /\ (c = diffNote.leaf /\ change.textLength = 1 /\ change.rangeLength = 0)
                       => ranges[i].oldRangeLength = ByteLength(c) - 1

\* one character inserted into the two-character token, the only marked node
\* below the root: old-length 2, length now 3
C15_Witness ==
    /\ diffNote.called
    /\ change.textLength = 1
    /\ change.rangeLength = 0
    /\ Flagged(tree) = {RootId, diffNote.leaf}
    /\ Len(ranges) = 1
    /\ ranges[1].oldRangeLength = 2
    /\ ByteLength(diffNote.leaf) = 3

\* C16: every Range Change gives its node's start and end with exactly 1
\* added to the tree's row and column, which is the host position of the
\* node's first and last offset in the document; the edit handed to the tree
\* has exactly 1 subtracted from each host line number and column, which is
\* the row and column of the edit's offsets in the text.
C16_CoordinateTranslation ==
    diffNote.called
       => /\ \A i \in DOMAIN ranges :
                LET nd == tree[changedNodes[i].new]
                    r == ranges[i].newRange
                IN  /\ r.startLineNumber = nd.startPosition.row + 1
                    /\ r.startColumn = nd.startPosition.column + 1
                    /\ r.endLineNumber = nd.endPosition.row + 1
                    /\ r.endColumn = nd.endPosition.column + 1
                    /\ PositionAt(docLines, nd.startIndex)
                          = [lineNumber |-> r.startLineNumber, column |-> r.startColumn]
                    /\ PositionAt(docLines, nd.endIndex)
                          = [lineNumber |-> r.endLineNumber, column |-> r.endColumn]
          /\ treeEdit.startPosition.row = change.range.startLineNumber - 1
          /\ treeEdit.startPosition.column = change.range.startColumn - 1
          /\ treeEdit.oldEndPosition.row = change.range.endLineNumber - 1
          /\ treeEdit.oldEndPosition.column = change.range.endColumn - 1
          /\ LET was == PositionAt(diffNote.before, treeEdit.startIndex)
                 is == PositionAt(docLines, treeEdit.newEndIndex)
             IN  /\ treeEdit.startPosition = Point(was.lineNumber - 1, was.column - 1)
                 /\ treeEdit.newEndPosition = Point(is.lineNumber - 1, is.column - 1)

\* a reported node that ends at tree position row 2, column 4 has a new
\* range ending at line 3, column 5
C16_Witness ==
    /\ diffNote.called
    /\ \E i \in DOMAIN ranges :
          /\ tree[changedNodes[i].new].endPosition = Point(2, 4)
          /\ ranges[i].newRange.endLineNumber = 3
          /\ ranges[i].newRange.endColumn = 5

\* C20: the diff reports exactly the outermost marked nodes: a node other
\* than the root is reported if and only if it is marked and none of its
\* proper ancestors other than the root is; the root is never reported, no
\* reported node lies below another, each is reported once and paired with
\* the node at the same place of the baseline copy.
C20_OutermostFlagged ==
    diffNote.called
       => /\ ~diffNote.fault
          /\ \A c \in DOMAIN tree :
                c \in Reported
                   <=> /\ c # RootId
                       /\ tree[c].hasChanges
                       /\ \A m \in PathTo(tree, tree[c].parent) \ {RootId} : ~tree[m].hasChanges
          /\ RootId \notin Reported
          /\ \A c, d \in Reported : c # d => c \notin PathTo(tree, d)
          /\ Cardinality(Reported) = Len(changedNodes)
          /\ \A i \in DOMAIN changedNodes : changedNodes[i].old = changedNodes[i].new

\* two marked subtrees are reported while marked nodes inside them are not
C20_Witness ==
    /\ diffNote.called
    /\ Cardinality(Reported) = 2
    /\ \E c \in Flagged(tree) : c # RootId /\ c \notin Reported

\* a reparse of the session waits in the queue although nothing runs and no
\* continuation is pending
Stuck(s) ==
    /\ micro = <<>>
    /\ \E t \in TaskIds(s) : sessions[s].tasks[t].pc = "queued"
    /\ \A t \in TaskIds(s) : sessions[s].tasks[t].pc \notin Active

\* the call of onDidChangeContent made in this step faulted in session s
FaultStep(s) == Len(sessions'[s].faulted) > Len(sessions[s].faulted)

\* C17: a desynchronization fault ends only the call it is raised in: it
\* neither disposes the session nor touches its queue, no queued reparse is
\* left waiting behind it, and once a later content change has been
\* delivered and the queue has drained, the session's current tree is the
\* committed result of a reparse of the whole current text.
C17_FaultIsLocal ==
    /\ [][\A s \in DOMAIN sessions :
             FaultStep(s)
                => /\ sessions'[s].disposed = sessions[s].disposed
                   /\ sessions'[s].subscribed = sessions[s].subscribed
                   /\ sessions'[s].tasks = sessions[s].tasks
                   /\ sessions'[s].tree = sessions[s].tree]_vars
    /\ [](\A s \in DOMAIN sessions :
            /\ ~Stuck(s)
            /\ \A t \in TaskIds(s) : sessions[s].tasks[t].pc # "broken"
            /\ (/\ sessions[s].faulted # <<>>
                /\ ~sessions[s].disposed
                /\ sessions[s].lastEdit > sessions[s].faulted[Len(sessions[s].faulted)]
                /\ Quiet(s))
                  => Fresh(s))

\* a session whose diff faulted on one change and that has since diffed,
\* reparsed and committed the next change and published it
C17_Witness ==
    \E s \in DOMAIN sessions :
        /\ ~sessions[s].disposed
        /\ sessions[s].faulted # <<>>
        /\ sessions[s].lastEdit > sessions[s].faulted[Len(sessions[s].faulted)]
        /\ Quiet(s)
        /\ Fresh(s)
        /\ LET task == sessions[s].tasks[Len(sessions[s].tasks)] IN
           /\ ~task.changed.whole
           /\ task.notified = 1
           /\ task.ret = sessions[s].tree

\* the edits of the batch a call of onDidChangeContent applied: what the
\* edited tree carries beyond the copy taken at the start of the call
BatchOf(task) ==
    SubSeq(task.changed.dirty, Len(heap[task.old].patches) + 1, Len(task.changed.dirty))

\* C21: the edits of a batch are applied to the session's tree in list
\* order within the step that delivers the batch, before its reparse is
\* enqueued; edits of successive batches follow each other in arrival order;
\* and no parser slice has read the text between two edits of one batch.
C21_EditsAppliedInOrder ==
    /\ [](\A s \in DOMAIN sessions :
            /\ sessions[s].tree # 0
                  => \A i, j \in DOMAIN heap[sessions[s].tree].patches :
                        i < j => heap[sessions[s].tree].patches[i]
                                    < heap[sessions[s].tree].patches[j]
            /\ \A t \in TaskIds(s) :
                  LET task == sessions[s].tasks[t] IN
                  task.old # 0
                     => /\ SubSeq(task.changed.dirty, 1, Len(heap[task.old].patches))
                              = heap[task.old].patches
                        /\ \A i \in DOMAIN BatchOf(task) :
                              BatchOf(task)[i] = BatchOf(task)[1] + i - 1
                        /\ \A h \in DOMAIN heap :
                              heap[h].kind = "parse" /\ BatchOf(task) # <<>>
                                 => ~(/\ BatchOf(task)[1] <= heap[h].base
                                      /\ heap[h].base < BatchOf(task)[Len(BatchOf(task))]))
    /\ [][docEdits' > docEdits
             => \A s \in DOMAIN sessions :
                   sessions[s].subscribed /\ sessions[s].tree # 0
                      => /\ heap'[sessions[s].tree].patches
                               = heap[sessions[s].tree].patches
                                    \o [i \in 1..(docEdits' - docEdits) |-> docEdits + i]
                         /\ Len(sessions'[s].tasks) = Len(sessions[s].tasks) + 1
                         /\ sessions'[s].tasks[Len(sessions'[s].tasks)].pc = "queued"
                         /\ \A t \in TaskIds(s) :
                               sessions'[s].tasks[t] = sessions[s].tasks[t]
                         /\ \A h \in DOMAIN heap' :
                               h \notin DOMAIN heap => heap'[h].kind = "copy"]_vars

\* a batch of two edits was applied to a committed tree, and the reparse
\* enqueued for it has run and committed
C21_Witness ==
    \E s \in DOMAIN sessions : \E t \in TaskIds(s) :
        LET task == sessions[s].tasks[t] IN
        /\ task.old # 0
        /\ Len(BatchOf(task)) = 2
        /\ task.pc = "done"
        /\ sessions[s].tree = task.ret
        /\ task.ret # 0

\* a call of onDidChangeContent is the step that counts its changes
DiffCall == diffEdits' > diffEdits

\* C22: a call made while the session has no tree computes no diff and its
\* published result is the whole-document sentinel: one Range Change from
\* line 1 column 1 to the end of the last line, with the content length as
\* old-length; a call made with a tree publishes the diff it computed, also
\* when that diff is empty.
C22_SentinelOnlyWithoutTree ==
    /\ [][DiffCall /\ tree = <<>>
             => /\ tree' = <<>> /\ oldTree' = <<>> /\ changedNodes' = <<>>
                /\ pending' = Append(pending, [defined |-> FALSE, ranges |-> <<>>])]_vars
    /\ [][DiffCall /\ tree # <<>>
             => pending' = Append(pending, [defined |-> TRUE, ranges |-> ranges'])]_vars
    /\ [][Len(pending') < Len(pending)
             => /\ published'.fired
                /\ pending' = Tail(pending)
                /\ Head(pending).defined => published'.ranges = Head(pending).ranges
                /\ ~Head(pending).defined
                      => published'.ranges
                            = << [newRange |-> [startLineNumber |-> 1, startColumn |-> 1,
                                                endLineNumber |-> Len(docLines),
                                                endColumn |-> docLines[Len(docLines)] + 1],
                                  oldRangeLength |-> ValueLength(docLines)] >>]_vars

\* the sentinel of the first call has been published for a document that
\* was empty then, its root-only tree has been committed, and the empty diff
\* of an insertion into that tree is the next result to publish
C22_Witness ==
    /\ published.fired
    /\ Len(published.ranges) = 1
    /\ published.ranges[1].oldRangeLength = 0
    /\ published.ranges[1].newRange.endColumn = 1
    /\ docLines = <<1>>
    /\ tree # <<>>
    /\ pending = << [defined |-> TRUE, ranges |-> <<>>] >>

\* C25: the diff of the edited tree against the copy taken before the edits
\* of the call never finds the two cursors in disagreement: the edits leave
\* the parent and the children of every node as they are in the copy; and
\* the loop examines every node at most once.
C25_DiffNeverDesyncs ==
    diffNote.called \/ diffNote.batch
       => /\ ~diffNote.fault
          /\ DOMAIN tree = DOMAIN oldTree
          /\ \A c \in DOMAIN tree :
                /\ tree[c].parent = oldTree[c].parent
                /\ tree[c].children = oldTree[c].children
          /\ \A i, j \in DOMAIN diffNote.visited :
                i # j => diffNote.visited[i] # diffNote.visited[j]
          /\ \A i \in DOMAIN diffNote.visited : diffNote.visited[i] \in DOMAIN tree
          /\ diffNote.visited[1] = RootId

\* an event with two changes in leaves of different subtrees: the loop
\* examined the root and the two marked children of the root, and stopped
C25_Witness ==
    /\ diffNote.batch
    /\ Len(changedNodes) = 2
    /\ Len(diffNote.visited) = 3
    /\ Cardinality(Flagged(tree)) = 5

\* C23: a session never runs two parser slices without returning control to
\* the event loop in between, the last slice of one reparse and the first
\* slice of the next included: after every slice the loop is suspended on
\* its timer.  An edit that arrives while the loop is suspended is seen when
\* the timer fires: the loop then runs no further slice (every tree is
\* parsed from the text as it was when its reparse cleared _newEdits) and
\* its tree is not committed.
C23_YieldBetweenSlices ==
    /\ [](\A s \in DOMAIN sessions :
            /\ sessions[s].sinceYield <= 1
            /\ sessions[s].sinceYield = 1
                  <=> \E t \in TaskIds(s) : sessions[s].tasks[t].pc = "yield")
    /\ [](\A h \in DOMAIN heap : heap[h].kind = "parse" => heap[h].base = heap[h].start)
    /\ [][\A s \in DOMAIN sessions : \A t \in TaskIds(s) :
             sessions[s].tasks[t].pc = "yield" /\ sessions[s].newEdits
                => /\ sessions'[s].tasks[t].tree = sessions[s].tasks[t].tree
                   /\ sessions'[s].tree = sessions[s].tree
                   /\ sessions'[s].tasks[t].pc \in {"yield", "finishing"}]_vars

\* an edit arrived while the first reparse was suspended; that reparse ended
\* without a commit and the first slice of the next reparse has run
C23_Witness ==
    \E s \in DOMAIN sessions :
        /\ Len(sessions[s].tasks) >= 2
        /\ sessions[s].tasks[1].pc = "done"
        /\ sessions[s].tasks[1].end > sessions[s].tasks[1].start
        /\ sessions[s].tasks[2].pc = "yield"
        /\ sessions[s].sinceYield = 1
        /\ sessions[s].tree = 0

\* C24: whenever a commit replaces a session's current tree, the previous
\* tree is released in that step (and was not released before), the new
\* current tree is an unreleased tree, and no committed tree that is not
\* some session's current tree stays unreleased.
C24_ReplacedTreeReleased ==
    /\ [][\A s \in DOMAIN sessions :
             sessions'[s].tree # sessions[s].tree
                => /\ sessions[s].tree # 0
                         => /\ heap[sessions[s].tree].deletes = 0
                            /\ heap'[sessions[s].tree].deletes = 1
                   /\ sessions'[s].tree # 0
                   /\ heap'[sessions'[s].tree].deletes = 0]_vars
    /\ [](\A h \in DOMAIN heap :
             heap[h].committed /\ heap[h].deletes = 0
                => \E s \in DOMAIN sessions : sessions[s].tree = h)

\* C26: no tree handle is released more than once, whatever the order of
\* commits, dispose() and the steps of a running reparse loop.
C26_NoDoubleRelease ==
    \A h \in DOMAIN heap : heap[h].deletes <= 1

\* C27: once a session has been disposed while its coordinator lives on (a
\* language switch), no notification is published for any of its content
\* changes.
C27_NoNotificationAfterSwitch ==
    [][\A s \in DOMAIN sessions : \A t \in TaskIds(s) :
          sessions[s].disposed /\ ~coordDisposed
             => sessions'[s].tasks[t].notified = sessions[s].tasks[t].notified]_vars

\* a notification is published for task t of session s in this step
Notifies(s, t) == sessions'[s].tasks[t].notified > sessions[s].tasks[t].notified

C29_OneLiveSession ==
    /\ Cardinality({s \in DOMAIN sessions : ~sessions[s].disposed}) <= 1
    /\ \A s \in DOMAIN sessions : sessions[s].subscribed => ~sessions[s].disposed
    /\ ~coordDisposed /\ parseResult # 0
          => parseResult \in DOMAIN sessions /\ ~sessions[parseResult].disposed

\* after a language switch: the first session is disposed and unsubscribed,
\* the second is the parse result and has a committed tree
C29_Witness ==
    /\ Len(sessions) = 2
    /\ sessions[1].disposed
    /\ ~sessions[1].subscribed
    /\ ~sessions[2].disposed
    /\ sessions[2].subscribed
    /\ parseResult = 2
    /\ sessions[2].tree # 0
    /\ ~coordDisposed

\* C30: when the broadcast for an identifier is delivered, the cache entry
\* already holds the grammar, so getOrInitLanguage returns it to a subscriber
\* calling from inside the delivery; and from the broadcast on every call of
\* getOrInitLanguage for the identifier returns the grammar.
C30_ResolvedBeforeBroadcast ==
    /\ [][\A l \in Langs :
             broadcasts'[l] > broadcasts[l]
                => /\ isCached(l)
                   /\ cache[l].result = "grammar"
                   /\ GetOrInitLanguage(l) = "grammar"]_vars
    /\ [](\A l \in Langs : broadcasts[l] >= 1 => GetOrInitLanguage(l) = "grammar")
    /\ [][\A l \in Langs :
             broadcasts[l] >= 1 /\ requests' > requests /\ lastSync'[l] # lastSync[l]
                => lastSync'[l] = "grammar"]_vars

\* the broadcast woke a waiting coordinator, which built its session, and a
\* later outside call of getOrInitLanguage returned the grammar
C30_Witness ==
    \E l \in Langs :
        /\ broadcasts[l] = 1
        /\ lastSync[l] = "grammar"
        /\ \E a \in DOMAIN attempts :
              attempts[a].lang = l /\ attempts[a].settles = 1 /\ attempts[a].pc = "constructed"

\* parse() attempts, by the order of their calls
AttemptIds == 1..MaxParses

\* attempt a waits for the broadcast of an identifier whose load has succeeded
LoadedWhileWaiting(a) ==
    /\ a \in DOMAIN attempts
    /\ attempts[a].pc = "wait"
    /\ cache[attempts[a].lang].promise = "grammar"

\* attempt a has built its session and the session's first parse, of the
\* whole document, has run to its end
FirstParseDone(a) ==
    /\ attempts[a].pc = "constructed"
    /\ attempts[a].session \in DOMAIN sessions
    /\ sessions[attempts[a].session].tasks # <<>>
    /\ sessions[attempts[a].session].tasks[1].changed.whole
    /\ sessions[attempts[a].session].tasks[1].pc = "done"

\* C31: no wake-up is lost.  An attempt whose lookup returned nothing and
\* whose identifier's load then succeeds is woken by the broadcast: unless
\* its scope is cancelled (a later parse() or disposal), it constructs its
\* session and the session's first parse runs to its end; and once the
\* reactions to the load have run, no attempt is left waiting for a loaded
\* identifier.
C31_NoLostWakeup ==
    /\ \A a \in AttemptIds :
          LoadedWhileWaiting(a)
             ~> (a \in DOMAIN attempts /\ (attempts[a].cancelled \/ FirstParseDone(a)))
    /\ [](\A a \in DOMAIN attempts :
             attempts[a].pc = "wait" /\ micro = <<>>
                => cache[attempts[a].lang].promise # "grammar")

\* the second attempt found the load its cancelled predecessor had started
\* still in flight, was woken by the broadcast and has parsed the document
C31_Witness ==
    /\ Len(attempts) = 2
    /\ attempts[1].lang = attempts[2].lang
    /\ attempts[1].cancelled
    /\ attempts[2].settles = 1
    /\ ~attempts[2].cancelled
    /\ fetchCount[attempts[2].lang] = 1
    /\ FirstParseDone(2)
    /\ sessions[attempts[2].session].tree # 0

\* every session is disposed and nothing of any queue is left to run
AllDrained ==
    /\ sessions # <<>>
    /\ micro = <<>>
    /\ \A s \in DOMAIN sessions : sessions[s].disposed /\ Quiet(s)

\* C32: once the sessions are disposed and their queues have drained, every
\* tree handle they obtained has been released: the current trees, the trees
\* of reparses that were discarded because edits arrived, and the copies
\* taken for diffing.
C32_AllTreesReleased ==
    AllDrained => \A h \in DOMAIN heap : heap[h].deletes >= 1

====
